---------------------------- MODULE Spec2Model ----------------------------
(***************************************************************************)
(* Creator Insight Extraction (src/main.py): the Streamlit script that     *)
(* turns a query into a category and a follower filter and ranks the rows  *)
(* of the creator table by a weighted score.                               *)
(*                                                                         *)
(* Text is a sequence of one-character strings, so that lower(), the `in`  *)
(* substring test, strip() and the regular expression of rank_creators are *)
(* computed character by character.  An optional value (Python's None) is  *)
(* None == <<>> and a present value v is Some(v) == <<v>>.  A weight is    *)
(* counted in slider steps of 0.05 and a score is an exact fraction        *)
(* [num, den]; floating-point rounding is not modelled.  The query history *)
(* and the rendering of the page are left out.                             *)
(*                                                                         *)
(* Spec is the whole page.  SpecQuery and SpecRank are the two parts of it *)
(* the properties are checked under: the query pipeline with the sliders   *)
(* at rest, and the ranking with the interpreter off.                      *)
(***************************************************************************)
EXTENDS Integers, Sequences, FiniteSets, TLC

VARIABLES
    df,                 \* the table load_data returned (module-level df)
    query,              \* the query text input
    use_llm,            \* the "Use LLM to parse query" checkbox
    weight_engagement,  \* the three sliders, in steps of 0.05
    weight_followers,
    weight_likes,
    picked,             \* the Category selectbox: 0 untouched, else the option chosen
    typed_filter,       \* the follower filter box: None untouched, else Some(text)
    parsed,             \* what parse_query_llm returned in the last run
    cat_basic,          \* what extract_category_basic returned in the last run
    category,           \* the category handed to rank_creators in the last run
    follower_filter,    \* the follower filter handed to rank_creators
    ranked,             \* ranked_df of the last run
    shown               \* which branch of the page the last run rendered

vars == <<df, query, use_llm, weight_engagement, weight_followers,
          weight_likes, picked, typed_filter, parsed, cat_basic, category,
          follower_filter, ranked, shown>>

----------------------------------------------------------------------------
(* Bounds of the model *)

\* the longest creator table the model loads
MaxRecords == 2

----------------------------------------------------------------------------
(* Python values *)

None == <<>>

Some(v) == <<v>>

\* Python truthiness of an optional text: None and "" are both false
truthy(o) == o # None /\ o[1] # <<>>

----------------------------------------------------------------------------
(* Text *)

ascii_uppercase == <<"A","B","C","D","E","F","G","H","I","J","K","L","M","N","O","P","Q","R","S","T","U","V","W","X","Y","Z">>

ascii_lowercase == <<"a","b","c","d","e","f","g","h","i","j","k","l","m","n","o","p","q","r","s","t","u","v","w","x","y","z">>

digits == <<"0","1","2","3","4","5","6","7","8","9">>

whitespace == {" ", "\t", "\n"}

\* the lower-case letter of each upper-case one
to_lower == [c \in {ascii_uppercase[i] : i \in 1..26} |->
               ascii_lowercase[CHOOSE i \in 1..26 : ascii_uppercase[i] = c]]

lower_char(c) == IF c \in DOMAIN to_lower THEN to_lower[c] ELSE c

\* str.lower()
lower(s) == [i \in 1..Len(s) |-> lower_char(s[i])]

\* the `in` operator on two texts: sub occurs somewhere in s
contains(sub, s) ==
    \E i \in 0..(Len(s) - Len(sub)) : SubSeq(s, i + 1, i + Len(sub)) = sub

\* str.strip()
strip(s) ==
    LET inked == {i \in 1..Len(s) : s[i] \notin whitespace}
        first == CHOOSE i \in inked : \A j \in inked : i <= j
        last == CHOOSE i \in inked : \A j \in inked : j <= i
    IN  IF inked = {} THEN <<>> ELSE SubSeq(s, first, last)

is_digit(c) == \E i \in 1..10 : digits[i] = c

digit_value(c) == (CHOOSE i \in 1..10 : digits[i] = c) - 1

\* int() of a text of decimal digits
RECURSIVE int(_)
int(s) ==
    IF s = <<>> THEN 0
    ELSE 10 * int(SubSeq(s, 1, Len(s) - 1)) + digit_value(s[Len(s)])

----------------------------------------------------------------------------
(* The follower filter expression *)

NoMatch == [matched |-> FALSE, op |-> "", value |-> 0]

\* the end of the longest run of characters of s from position i on that
\* satisfy the class: i - 1 when s[i] is not of the class
RECURSIVE run_end(_, _, _)
run_end(s, i, digit) ==
    IF i <= Len(s) /\ (IF digit THEN is_digit(s[i]) ELSE s[i] \in whitespace)
    THEN run_end(s, i + 1, digit)
    ELSE i - 1

\* the pattern ([><=])\s*(\d+) tried at position i of text: the operator,
\* any whitespace, then every digit that follows (\d+ is greedy)
match_at(text, i) ==
    IF i > Len(text) \/ text[i] \notin {">", "<", "="} THEN NoMatch
    ELSE LET ws == run_end(text, i + 1, FALSE)
             de == run_end(text, ws + 1, TRUE)
         IN  IF de <= ws THEN NoMatch
             ELSE [matched |-> TRUE, op |-> text[i],
                   value |-> int(SubSeq(text, ws + 1, de))]

\* a faulty variant: the pattern with a leading \s* in front of it
re_match_after_whitespace(text) == match_at(text, run_end(text, 1, FALSE) + 1)

\* re.match(r'([><=])\s*(\d+)', text): re.match tries the pattern at the
\* first character only
re_match(text) == match_at(text, 1)

----------------------------------------------------------------------------
(* The creator table *)

\* a cell of a numeric column as read from the CSV: a number, or something
\* pd.to_numeric(errors='coerce') turns into NaN
Num(v) == [numeric |-> TRUE, value |-> v]

NaN == [numeric |-> FALSE, value |-> 0]

Fashion == <<"F","a","s","h","i","o","n">>

fashion == <<"f","a","s","h","i","o","n">>

Tech == <<"T","e","c","h">>

tech == <<"t","e","c","h">>

beauty == <<"b","e","a","u","t","y">>

Row(n, c, f, e, l, m) ==
    [name |-> n, category |-> c, follower_count |-> f, engagement_rate |-> e,
     average_likes_post |-> l, average_comments_post |-> m]

\* the rows a loaded table is made of
CreatorPool ==
    { Row("A", Fashion, 20000, Num(5), Num(100), Num(20)),
      Row("B", fashion, 10000, Num(8), Num(50), Num(10)),
      Row("C", Tech, 0, NaN, Num(30), NaN) }

base_columns ==
    {"name", "category", "follower_count", "engagement_rate",
     "average_likes_post", "average_comments_post"}

\* load_data(): any table of 1..MaxRecords distinct creators
Tables ==
    UNION { { t \in [1..n -> CreatorPool] :
                \A i, j \in 1..n : i # j => t[i] # t[j] } : n \in 1..MaxRecords }

\* Series.unique(): the distinct values in order of first appearance
RECURSIVE unique(_)
unique(s) ==
    IF s = <<>> THEN <<>>
    ELSE LET init == unique(SubSeq(s, 1, Len(s) - 1))
         IN  IF \E i \in 1..Len(init) : init[i] = s[Len(s)]
             THEN init ELSE Append(init, s[Len(s)])

\* categories = df['category'].unique()
categories_of(d) == unique([i \in 1..Len(d) |-> d[i].category])

----------------------------------------------------------------------------
(* rank_creators *)

\* a boolean-mask selection keeps each row's index label
with_index(d) == [i \in 1..Len(d) |-> [index |-> i] @@ d[i]]

\* a faulty variant: '>' written as '>='
compare_inclusive(op, a, b) ==
    CASE op = ">" -> a >= b
      [] op = "<" -> a < b
      [] op = "=" -> a = b

\* the three comparisons of the follower filter
compare(op, a, b) ==
    CASE op = ">" -> a > b
      [] op = "<" -> a < b
      [] op = "=" -> a = b

\* a faulty variant: the smallest follower count instead of the largest
min_followers(rows) ==
    IF rows = <<>> THEN NaN
    ELSE Num(CHOOSE v \in {rows[i].follower_count : i \in 1..Len(rows)} :
               \A i \in 1..Len(rows) : v <= rows[i].follower_count)

\* df_filtered['follower_count'].max(): NaN on an empty selection
max_followers(rows) ==
    IF rows = <<>> THEN NaN
    ELSE Num(CHOOSE v \in {rows[i].follower_count : i \in 1..Len(rows)} :
               \A i \in 1..Len(rows) : v >= rows[i].follower_count)

\* pd.to_numeric(column, errors='coerce').fillna(0), on one cell
to_numeric_fillna(cell) == IF cell.numeric THEN cell.value ELSE 0

\* fractions [num, den] with den > 0
Frac(n, d) == [num |-> n, den |-> d]

\* a <= b; the scores of one run share their denominator
frac_leq(a, b) ==
    IF a.den = b.den THEN a.num <= b.num
    ELSE a.num * b.den <= b.num * a.den

\* the derived columns of one row of the selection, given its max_followers;
\* the weights are in slider steps of 0.05, hence the 20 of the denominator
score_row(r, maxf, w_eng, w_fol, w_likes) ==
    LET fs == IF maxf.numeric /\ maxf.value > 0
              THEN Frac(r.follower_count, maxf.value)
              ELSE Frac(0, 1)
        eng == to_numeric_fillna(r.engagement_rate)
        likes == to_numeric_fillna(r.average_likes_post)
        comments == to_numeric_fillna(r.average_comments_post)
        alc == likes + comments
    IN  [index |-> r.index, name |-> r.name, category |-> r.category,
         follower_count |-> r.follower_count,
         engagement_rate |-> Num(eng),
         average_likes_post |-> Num(likes),
         average_comments_post |-> Num(comments),
         Follower_Score |-> fs,
         avg_likes_comments |-> alc,
         Score |-> Frac((eng * w_eng + alc * w_likes) * fs.den + fs.num * w_fol,
                        20 * fs.den)]

\* the orders of 1..n
Orders(n) == {p \in [1..n -> 1..n] : \A i, j \in 1..n : i # j => p[i] # p[j]}

\* a faulty variant: ascending=True
sort_values_ascending(rows) ==
    { [i \in 1..Len(rows) |-> rows[p[i]]] :
        p \in { q \in Orders(Len(rows)) :
                  \A i, j \in 1..Len(rows) :
                      i < j => frac_leq(rows[q[i]].Score, rows[q[j]].Score) } }

\* sort_values(by='Score', ascending=False) with the default kind='quicksort',
\* which pandas documents as not stable: every order of the rows that is
\* non-increasing in Score is a possible result
sort_values(rows) ==
    { [i \in 1..Len(rows) |-> rows[p[i]]] :
        p \in { q \in Orders(Len(rows)) :
                  \A i, j \in 1..Len(rows) :
                      i < j => frac_leq(rows[q[j]].Score, rows[q[i]].Score) } }

\* rank_creators(df, category, follower_filter, w_eng, w_fol, w_likes): the
\* set of tables it may return
rank_creators(d, cat, ff, w_eng, w_fol, w_likes) ==
    LET in_category(r) == lower(r.category) = lower(cat)
        by_category == SelectSeq(with_index(d), in_category)
        m == IF truthy(ff) THEN re_match(ff[1]) ELSE NoMatch
        keeps(r) == compare(m.op, r.follower_count, m.value)
        df_filtered == IF m.matched THEN SelectSeq(by_category, keeps)
                       ELSE by_category
        maxf == max_followers(df_filtered)
        scored == [i \in 1..Len(df_filtered) |->
                     score_row(df_filtered[i], maxf, w_eng, w_fol, w_likes)]
    IN  sort_values(scored)

\* a faulty variant: the derived columns written to the table itself
source_without_copy(d, result) == result

\* .copy() at the head of rank_creators: the derived columns are assigned to
\* the copy, and df is what it was
source_after_rank(d, result) == d

----------------------------------------------------------------------------
(* Query parsing *)

RECURSIVE scan_exact_case(_, _, _)
scan_exact_case(query_lower, cats, i) ==
    IF i > Len(cats) THEN None
    ELSE IF contains(cats[i], query_lower) THEN Some(cats[i])
    ELSE scan_exact_case(query_lower, cats, i + 1)

\* a faulty variant: the category compared without .lower()
extract_category_exact_case(q, cats) == scan_exact_case(lower(q), cats, 1)

\* the for loop of extract_category_basic from the i-th category on
RECURSIVE scan_categories(_, _, _)
scan_categories(query_lower, cats, i) ==
    IF i > Len(cats) THEN None
    ELSE IF contains(lower(cats[i]), query_lower) THEN Some(cats[i])
    ELSE scan_categories(query_lower, cats, i + 1)

\* extract_category_basic(query, categories)
extract_category_basic(q, cats) == scan_categories(lower(q), cats, 1)

\* the decoded JSON object of a reply: a dict with any of the three keys
Hint(c, f, o) == [category |-> c, follower_filter |-> f, sort_by |-> o]

\* dict.get(key, default) on an optional field
get(field, default) == IF field = None THEN default ELSE field[1]

\* bool(dict): an empty dict is false
nonempty(h) == h.category # None \/ h.follower_filter # None \/ h.sort_by # None

engagement_rate_text == <<"e","n","g","a","g","e","m","e","n","t"," ","r","a","t","e">>

\* what the call of the interpreter and the decoding of its reply can come
\* to: no API key, an exception of the call, a text without a {...} block, a
\* block that neither json.loads nor eval decodes, or a decoded object
Replies ==
    { [kind |-> "no_api_key", object |-> Hint(None, None, None)],
      [kind |-> "exception", object |-> Hint(None, None, None)],
      [kind |-> "no_braces", object |-> Hint(None, None, None)],
      [kind |-> "undecodable", object |-> Hint(None, None, None)],
      [kind |-> "object", object |-> Hint(None, None, None)],
      [kind |-> "object", object |->
          Hint(Some(Tech), Some(<<">","1","0","0","0","0">>),
               Some(engagement_rate_text))],
      [kind |-> "object", object |-> Hint(Some(tech), None, None)],
      [kind |-> "object", object |-> Hint(Some(beauty), None, None)],
      [kind |-> "object", object |->
          Hint(None, None, Some(engagement_rate_text))] }

\* parse_query_llm(query): None without a key, on an exception of the call, on
\* a text without a {...} block and on a block that does not decode; else the
\* decoded object
parse_query_llm(reply) ==
    IF reply.kind = "object" THEN Some(reply.object) ELSE None

----------------------------------------------------------------------------
(* The page *)

example_queries ==
    << <<"S","h","o","w"," ","m","e"," ","t","h","e"," ","t","o","p"," ","f","a","s","h","i","o","n"," ","c","r","e","a","t","o","r","s"," ","w","i","t","h"," ",">","1","0","0","0","0"," ","f","o","l","l","o","w","e","r","s">>,
       <<"L","i","s","t"," ","w","e","l","l","n","e","s","s"," ","c","r","e","a","t","o","r","s"," ","w","i","t","h"," ","h","i","g","h"," ","e","n","g","a","g","e","m","e","n","t">>,
       <<"F","i","n","d"," ","t","e","c","h"," ","c","r","e","a","t","o","r","s"," ","f","o","r"," ","m","y"," ","c","a","m","p","a","i","g","n">>,
       <<"T","o","p"," ","c","r","e","a","t","o","r","s"," ","i","n"," ","b","e","a","u","t","y"," ","w","i","t","h"," ",">","5","0","0","0"," ","f","o","l","l","o","w","e","r","s">> >>

\* queries typed by hand: the empty one, and one naming two categories
TypedQueries == { <<>>, <<"T","e","c","h"," ","a","n","d"," ","F","A","S","H","I","O","N">> }

\* texts typed into the follower filter box
FilterTexts ==
    { <<">","1","0","0","0","0">>,
      <<" ",">","1","0","0","0","0">>,
      <<"="," ","2","0","0","0","0">>,
      <<"<","2","0","0","0","0"," ","f","o","l","l","o","w","e","r","s">>,
      <<"S","h","o","w"," ","A","l","l"," ">> }

show_all == <<"s","h","o","w"," ","a","l","l">>

\* the slider defaults, in steps of 0.05: 0.5, 0.3, 0.2
default_engagement == 10

default_followers == 6

default_likes == 4

\* the slider positions the model moves each slider between
EngagementStops == {0, default_engagement}

FollowersStops == {0, default_followers}

LikesStops == {0, default_likes}

\* a faulty variant: a selectbox that forgets what the user chose
selectbox_ignoring_choice(options, index, pick) == options[index]

\* st.selectbox(label, options, index): the option the user chose, or the
\* one at index while the box is untouched (positions count from 1 here)
selectbox(options, index, pick) ==
    IF pick = 0 THEN options[index] ELSE options[pick]

\* st.text_input(label, value): what the user typed, or value while untouched
text_input(value, typed) == IF typed = None THEN value ELSE typed[1]

position(options, v) == CHOOSE i \in 1..Len(options) : options[i] = v

is_in(v, options) == \E i \in 1..Len(options) : options[i] = v

\* the index argument of the selectbox of the hint branch
hint_index(h, cats) ==
    IF h.category # None /\ is_in(h.category[1], cats)
    THEN position(cats, get(h.category, cats[1]))
    ELSE 1

\* the reply of the interpreter, where the run calls it
RepliesFor(q, llm) ==
    IF llm /\ q # <<>> THEN Replies
    ELSE {[kind |-> "not_called", object |-> Hint(None, None, None)]}

\* one run of the script from "Query Parsing" to the end, on the widget
\* values given: the values its variables end with, one record per order
\* the sort may leave the rows in
run_script(d, q, llm, w_eng, w_fol, w_likes, pick, typed, reply) ==
    IF q = <<>>
    THEN { [df |-> d, parsed |-> None, cat_basic |-> None, category |-> None,
            follower_filter |-> None, ranked |-> <<>>,
            shown |-> "enter_query"] }
    ELSE
    LET categories == categories_of(d)
        p == IF llm THEN parse_query_llm(reply) ELSE None
        hinted == p # None /\ nonempty(p[1])
        basic == IF llm THEN None ELSE extract_category_basic(q, categories)
        cat == IF llm
               THEN IF hinted
                    THEN selectbox(categories, hint_index(p[1], categories), pick)
                    ELSE selectbox(categories, 1, pick)
               ELSE IF truthy(basic) THEN basic[1]
                    ELSE selectbox(categories, 1, pick)
        first_box == IF hinted THEN get(p[1].follower_filter, <<>>) ELSE <<>>
        second_box == text_input(first_box, typed)
        ff == IF second_box = <<>> \/ lower(strip(second_box)) = show_all
              THEN None ELSE Some(second_box)
    IN  { [df |-> source_after_rank(d, result), parsed |-> p,
           cat_basic |-> basic, category |-> Some(cat),
           follower_filter |-> ff, ranked |-> result,
           shown |-> IF result = <<>> THEN "no_creators" ELSE "results"] :
          result \in rank_creators(d, cat, ff, w_eng, w_fol, w_likes) }

----------------------------------------------------------------------------
(* The state machine: every change of a widget reruns the script *)

\* the rerun: the widgets take the values given and the script's variables
\* the values the run ends with
Rerun(q, llm, w_eng, w_fol, w_likes, pick, typed) ==
    /\ query' = q
    /\ use_llm' = llm
    /\ weight_engagement' = w_eng
    /\ weight_followers' = w_fol
    /\ weight_likes' = w_likes
    /\ picked' = pick
    /\ typed_filter' = typed
    /\ \E reply \in RepliesFor(q, llm) :
         \E out \in run_script(df, q, llm, w_eng, w_fol, w_likes,
                               pick, typed, reply) :
            /\ df' = out.df
            /\ parsed' = out.parsed
            /\ cat_basic' = out.cat_basic
            /\ category' = out.category
            /\ follower_filter' = out.follower_filter
            /\ ranked' = out.ranked
            /\ shown' = out.shown

\* the first run: the table is loaded, the widgets are at their defaults
Init ==
    /\ df \in Tables
    /\ query = example_queries[1]
    /\ use_llm = FALSE
    /\ weight_engagement = default_engagement
    /\ weight_followers = default_followers
    /\ weight_likes = default_likes
    /\ picked = 0
    /\ typed_filter = None
    /\ \E reply \in RepliesFor(query, use_llm) :
         \E out \in run_script(df, query, use_llm, weight_engagement,
                               weight_followers, weight_likes, picked,
                               typed_filter, reply) :
            /\ parsed = out.parsed
            /\ cat_basic = out.cat_basic
            /\ category = out.category
            /\ follower_filter = out.follower_filter
            /\ ranked = out.ranked
            /\ shown = out.shown

\* a "Use: ..." button of the Example Queries expander
UseExample(i) ==
    Rerun(example_queries[i], use_llm, weight_engagement, weight_followers,
          weight_likes, picked, typed_filter)

\* the query text input
EnterQuery(q) ==
    Rerun(q, use_llm, weight_engagement, weight_followers, weight_likes,
          picked, typed_filter)

\* the "Use LLM to parse query" checkbox
ToggleLLM ==
    Rerun(query, ~use_llm, weight_engagement, weight_followers, weight_likes,
          picked, typed_filter)

\* the three sliders
SlideEngagement(w) ==
    Rerun(query, use_llm, w, weight_followers, weight_likes, picked,
          typed_filter)

SlideFollowers(w) ==
    Rerun(query, use_llm, weight_engagement, w, weight_likes, picked,
          typed_filter)

SlideLikes(w) ==
    Rerun(query, use_llm, weight_engagement, weight_followers, w, picked,
          typed_filter)

\* the Category selectbox, rendered when there is a query
SelectCategory(i) ==
    /\ query # <<>>
    /\ i \in 1..Len(categories_of(df))
    /\ Rerun(query, use_llm, weight_engagement, weight_followers,
             weight_likes, i, typed_filter)

\* the follower filter box, rendered when there is a query
TypeFollowerFilter(text) ==
    /\ query # <<>>
    /\ Rerun(query, use_llm, weight_engagement, weight_followers,
             weight_likes, picked, Some(text))

Next ==
    \/ \E i \in 1..Len(example_queries) : UseExample(i)
    \/ \E q \in TypedQueries : EnterQuery(q)
    \/ ToggleLLM
    \/ \E w \in EngagementStops : SlideEngagement(w)
    \/ \E w \in FollowersStops : SlideFollowers(w)
    \/ \E w \in LikesStops : SlideLikes(w)
    \/ \E i \in 1..(MaxRecords + 1) : SelectCategory(i)
    \/ \E text \in FilterTexts : TypeFollowerFilter(text)

Spec == Init /\ [][Next]_vars

\* the query pipeline: the sliders stay at their defaults and the follower
\* filter box untouched (the hint may fill it)
NextQuery ==
    \/ \E i \in 1..Len(example_queries) : UseExample(i)
    \/ \E q \in TypedQueries : EnterQuery(q)
    \/ ToggleLLM
    \/ \E i \in 1..(MaxRecords + 1) : SelectCategory(i)

SpecQuery == Init /\ [][NextQuery]_vars

\* the ranking: the interpreter stays off
NextRank ==
    \/ \E i \in 1..Len(example_queries) : UseExample(i)
    \/ \E q \in TypedQueries : EnterQuery(q)
    \/ \E w \in EngagementStops : SlideEngagement(w)
    \/ \E w \in FollowersStops : SlideFollowers(w)
    \/ \E w \in LikesStops : SlideLikes(w)
    \/ \E i \in 1..(MaxRecords + 1) : SelectCategory(i)
    \/ \E text \in FilterTexts : TypeFollowerFilter(text)

SpecRank == Init /\ [][NextRank]_vars

----------------------------------------------------------------------------
(* What the claims are stated in *)

categories == categories_of(df)

\* the last run reached rank_creators
Ranked == shown # "enter_query"

\* the index labels of the rows of ranked_df
RankedIndex == {ranked[i].index : i \in 1..Len(ranked)}

\* the rows of the table whose category is cat, case-insensitively
OfCategory(cat) == {i \in 1..Len(df) : lower(df[i].category) = lower(cat)}

\* follower_count op value, by integer comparison
Holds(op, count, value) ==
    \/ op = ">" /\ count > value
    \/ op = "<" /\ count < value
    \/ op = "=" /\ count = value

\* the rows of category cat that satisfy the comparison m
Satisfying(cat, m) ==
    {i \in OfCategory(cat) : Holds(m.op, df[i].follower_count, m.value)}

\* a row without its index label
Unlabelled(r) == [f \in (DOMAIN r) \ {"index"} |-> r[f]]

Unlabelled_rows(t) == {Unlabelled(t[i]) : i \in 1..Len(t)}

\* C1: the rows rank_creators returns are in non-increasing order of Score,
\* and on any reordering of the table's rows it returns the same set of rows.
C1_SortedAndOrderInsensitive ==
    Ranked =>
      /\ \A i, j \in 1..Len(ranked) :
           i < j => /\ ranked[i].Score.den = ranked[j].Score.den
                    /\ ranked[i].Score.num >= ranked[j].Score.num
      /\ \A p \in Orders(Len(df)) :
           \A other \in rank_creators([i \in 1..Len(df) |-> df[p[i]]],
                                      category[1], follower_filter,
                                      weight_engagement, weight_followers,
                                      weight_likes) :
              Unlabelled_rows(other) = Unlabelled_rows(ranked)

\* two rows of different score were ranked
C1_Witness ==
    /\ Ranked
    /\ Len(ranked) = 2
    /\ ranked[1].Score.num > ranked[2].Score.num
    /\ ranked[1].index > ranked[2].index

\* C2: given a follower filter (op, value), the rows returned are exactly the
\* rows of the category for which follower_count op value holds.
C2_FilterExact ==
    (Ranked /\ truthy(follower_filter) /\ re_match(follower_filter[1]).matched)
      => /\ RankedIndex = Satisfying(category[1], re_match(follower_filter[1]))
         /\ Len(ranked) = Cardinality(RankedIndex)

\* '>10000' kept the row above 10000 and dropped the row of the category at it
C2_Witness ==
    /\ Ranked
    /\ follower_filter = Some(<<">","1","0","0","0","0">>)
    /\ Cardinality(OfCategory(category[1])) = 2
    /\ Len(ranked) = 1
    /\ ranked[1].follower_count = 20000

\* the largest follower count among the rows returned
TopCount ==
    CHOOSE v \in {ranked[i].follower_count : i \in 1..Len(ranked)} :
      \A i \in 1..Len(ranked) : v >= ranked[i].follower_count

\* C3 (as claimed): in a non-empty result every Follower_Score is in [0,1]
\* and the row with the largest follower_count has Follower_Score 1.
C3_ScoreOfTopIsOne ==
    (Ranked /\ ranked # <<>>) =>
      \A i \in 1..Len(ranked) :
         /\ 0 <= ranked[i].Follower_Score.num
         /\ ranked[i].Follower_Score.num <= ranked[i].Follower_Score.den
         /\ ranked[i].follower_count = TopCount
              => ranked[i].Follower_Score.num = ranked[i].Follower_Score.den

\* C3 (amended): in a non-empty result every Follower_Score is in [0,1]; it
\* is follower_count / the largest follower_count, so 1 for the row with the
\* largest, when that largest count is above 0, and 0 for every row when the
\* largest count is 0.
C3_ScoreOfTopIsOneUnlessZero ==
    (Ranked /\ ranked # <<>>) =>
      \A i \in 1..Len(ranked) :
         /\ 0 <= ranked[i].Follower_Score.num
         /\ ranked[i].Follower_Score.num <= ranked[i].Follower_Score.den
         /\ IF TopCount > 0
            THEN /\ ranked[i].Follower_Score.num = ranked[i].follower_count
                 /\ ranked[i].Follower_Score.den = TopCount
                 /\ ranked[i].follower_count = TopCount
                      => ranked[i].Follower_Score.num
                           = ranked[i].Follower_Score.den
            ELSE ranked[i].Follower_Score.num = 0

\* two rows, one with Follower_Score 1 and one with 1/2
C3_Witness ==
    /\ Ranked
    /\ \E i, j \in 1..Len(ranked) :
         /\ ranked[i].Follower_Score = Frac(20000, 20000)
         /\ ranked[j].Follower_Score = Frac(10000, 20000)

\* the positions of the categories whose lower-cased name occurs in the
\* lower-cased query
Named == {k \in 1..Len(categories) :
            contains(lower(categories[k]), lower(query))}

\* C4 (as claimed): extract_category_basic returns every known category whose
\* name occurs in the query, whatever the order of the categories.
C4_ReturnsEveryNamedCategory ==
    (Ranked /\ ~use_llm) =>
      \A k \in Named : cat_basic = Some(categories[k])

\* C4 (amended): extract_category_basic returns the first category, in the
\* order of the categories, whose name occurs in the query, and None when no
\* category's name does.
C4_ReturnsFirstNamedCategory ==
    (Ranked /\ ~use_llm) =>
      IF Named = {} THEN cat_basic = None
      ELSE \E k \in Named :
             /\ \A other \in Named : k <= other
             /\ cat_basic = Some(categories[k])

\* a query naming two categories resolved to the first of the two
C4_Witness ==
    /\ Ranked
    /\ ~use_llm
    /\ categories = <<Tech, Fashion>>
    /\ Named = {1, 2}
    /\ cat_basic = Some(Tech)

\* C5: with the interpreter on and parse_query_llm failing, the category
\* handed to rank_creators is the one extract_category_basic finds in the query
\* (the selectbox left untouched).
C5_FallsBackToSubstring ==
    (Ranked /\ use_llm /\ parsed = None /\ picked = 0
       /\ extract_category_basic(query, categories) # None)
      => category = extract_category_basic(query, categories)

\* neither the hint nor the substring resolver names a category
NoCategoryMatch ==
    /\ Ranked
    /\ extract_category_basic(query, categories) = None
    /\ (use_llm => (parsed = None \/ parsed[1].category = None))

C7_HintCategoryRanksItsOwn ==
    (Ranked /\ use_llm /\ parsed # None /\ parsed[1].category # None
       /\ picked = 0)
      => /\ RankedIndex \subseteq OfCategory(parsed[1].category[1])
         /\ follower_filter = None
              => RankedIndex = OfCategory(parsed[1].category[1])

\* C8: rows of equal Score are returned in the order they have in the table.
C8_TiesKeepTableOrder ==
    Ranked =>
      \A i, j \in 1..Len(ranked) :
         (i < j /\ ranked[i].Score = ranked[j].Score)
           => ranked[i].index < ranked[j].index

ClaimedPattern(text) == match_at(text, run_end(text, 1, FALSE) + 1)

\* C10 (as claimed): a filter text of optional leading whitespace, an
\* operator, optional whitespace and digits filters by (op, value); any other
\* text filters nothing.
C10_LeadingWhitespaceAccepted ==
    (Ranked /\ truthy(follower_filter)) =>
      IF ClaimedPattern(follower_filter[1]).matched
      THEN RankedIndex
             = Satisfying(category[1], ClaimedPattern(follower_filter[1]))
      ELSE RankedIndex = OfCategory(category[1])

\* C10 (amended): a filter text that starts with the operator, then optional
\* whitespace and digits, filters by (op, value), whatever follows the digits;
\* any other text, one with leading whitespace included, filters nothing.
C10_OperatorMustComeFirst ==
    (Ranked /\ truthy(follower_filter)) =>
      LET text == follower_filter[1]
      IN  /\ text[1] \in whitespace => RankedIndex = OfCategory(category[1])
          /\ IF match_at(text, 1).matched
             THEN RankedIndex = Satisfying(category[1], match_at(text, 1))
             ELSE RankedIndex = OfCategory(category[1])

\* ' >10000' kept a row that is not above 10000
C10_Witness ==
    /\ Ranked
    /\ follower_filter = Some(<<" ",">","1","0","0","0","0">>)
    /\ \E i \in 1..Len(ranked) : ranked[i].follower_count <= 10000

============================================================================
